---- MODULE Spec2Model ----
(***************************************************************************)
(* A model of src/main.py (scr-to-webp): locate the newest screenshot,     *)
(* ask a model for filename candidates, parse the reply, let the user      *)
(* select a name, locate again and compress.                               *)
(*                                                                         *)
(* Text is a sequence of one-character strings.  A Python value is a       *)
(* record [t, v]: t is the type tag ("None", "bool", "num", "str", "list", *)
(* "dict") and v the payload (a dict is a sequence of [k, v] pairs in      *)
(* insertion order).                                                       *)
(***************************************************************************)
EXTENDS Integers, Sequences, FiniteSets, TLC

VARIABLES pc, fs, fs_events, llm_response, sample, filenames, console,
          selected_filename, image_path, sent_path, requests, prompted,
          compress_args, proc, result, printed, raised

vars == <<pc, fs, fs_events, llm_response, sample, filenames, console,
          selected_filename, image_path, sent_path, requests, prompted,
          compress_args, proc, result, printed, raised>>

(***************************************************************************)
(* Bounds of the model.                                                    *)
(***************************************************************************)
MaxInputLen == 3
MaxCands == 3
MaxFiles == 3
MaxMtime == 2
MaxNameLen == 2
MaxFsEvents == 1
MaxListLen == 2

(***************************************************************************)
(* Python values.                                                          *)
(***************************************************************************)
None == [t |-> "None", v |-> 0]
Bool(b) == [t |-> "bool", v |-> b]
Num(n) == [t |-> "num", v |-> n]
Str(s) == [t |-> "str", v |-> s]
List(xs) == [t |-> "list", v |-> xs]
Dict(kvs) == [t |-> "dict", v |-> kvs]
KV(key, val) == [k |-> key, v |-> val]

\* Python's equality between two values (a str never equals a non-str).
PyEq(a, b) == a.t = b.t /\ a.v = b.v

\* bool(x): the truth value Python gives a value.
Truthy(x) ==
    CASE x.t = "None" -> FALSE
      [] x.t = "bool" -> x.v
      [] x.t = "num" -> x.v # 0
      [] OTHER -> Len(x.v) > 0

(***************************************************************************)
(* str operations.                                                         *)
(***************************************************************************)
Whitespace == {" ", "\n", "\t"}
Digits == <<"0", "1", "2", "3", "4", "5", "6", "7", "8", "9">>
UPPER == <<"A", "B", "C", "D", "E", "F", "G", "H", "I", "J", "K", "L", "M",
           "N", "O", "P", "Q", "R", "S", "T", "U", "V", "W", "X", "Y", "Z">>
LOWER == <<"a", "b", "c", "d", "e", "f", "g", "h", "i", "j", "k", "l", "m",
           "n", "o", "p", "q", "r", "s", "t", "u", "v", "w", "x", "y", "z">>

IsDigit(c) == \E i \in 1..10 : Digits[i] = c
DigitVal(c) == (CHOOSE i \in 1..10 : Digits[i] = c) - 1
IsUpper(c) == \E i \in 1..26 : UPPER[i] = c

\* s[i..] with Python's slice convention (1-based here).
Drop(s, n) == SubSeq(s, n + 1, Len(s))
Take(s, n) == SubSeq(s, 1, n)

StartsWith(s, p) == Len(p) <= Len(s) /\ Take(s, Len(p)) = p

\* str.find: the first position where pat starts in s, 0 when there is none.
Find(s, pat) ==
    IF \E i \in 1..(Len(s) - Len(pat) + 1) : SubSeq(s, i, i + Len(pat) - 1) = pat
    THEN CHOOSE i \in 1..(Len(s) - Len(pat) + 1) :
            /\ SubSeq(s, i, i + Len(pat) - 1) = pat
            /\ \A j \in 1..(i - 1) : SubSeq(s, j, j + Len(pat) - 1) # pat
    ELSE 0

\* pat in s
Contains(s, pat) == Find(s, pat) # 0

\* str.split(sep): the pieces between non-overlapping occurrences, left to right.
RECURSIVE Split(_, _)
Split(s, sep) ==
    LET i == Find(s, sep)
    IN IF i = 0 THEN <<s>>
       ELSE <<Take(s, i - 1)>> \o Split(Drop(s, i - 1 + Len(sep)), sep)

\* str.strip(): leading and trailing whitespace removed.
RECURSIVE LStrip(_)
LStrip(s) == IF s # <<>> /\ Head(s) \in Whitespace THEN LStrip(Tail(s)) ELSE s
RECURSIVE RStrip(_)
RStrip(s) ==
    IF s # <<>> /\ s[Len(s)] \in Whitespace THEN RStrip(Take(s, Len(s) - 1)) ELSE s
Strip(s) == RStrip(LStrip(s))

\* str.lower() on ASCII text.
LowerChar(c) == IF IsUpper(c) THEN LOWER[CHOOSE i \in 1..26 : UPPER[i] = c] ELSE c
Lower(s) == [i \in 1..Len(s) |-> LowerChar(s[i])]

\* str.replace(old, new) for one-character old and new.
Replace(s, old, new) == [i \in 1..Len(s) |-> IF s[i] = old THEN new ELSE s[i]]

\* int(s): [ok |-> TRUE, n |-> value], or ok = FALSE for ValueError.  The
\* literal is an optional sign and decimal digits, single underscores allowed
\* between digits, surrounding whitespace ignored.
RECURSIVE DigitsValue(_, _)
DigitsValue(s, acc) ==
    IF s = <<>> THEN acc
    ELSE IF Head(s) = "_" THEN DigitsValue(Tail(s), acc)
    ELSE DigitsValue(Tail(s), acc * 10 + DigitVal(Head(s)))
IsDigitRun(s) ==
    /\ s # <<>>
    /\ IsDigit(s[1]) /\ IsDigit(s[Len(s)])
    /\ \A i \in 1..Len(s) : IsDigit(s[i]) \/ s[i] = "_"
    /\ \A i \in 1..(Len(s) - 1) : ~(s[i] = "_" /\ s[i + 1] = "_")
PyInt(s0) ==
    LET s == Strip(s0)
        signed == s # <<>> /\ Head(s) \in {"+", "-"}
        body == IF signed THEN Tail(s) ELSE s
    IN IF IsDigitRun(body)
       THEN [ok |-> TRUE,
             n |-> IF signed /\ Head(s) = "-" THEN 0 - DigitsValue(body, 0)
                   ELSE DigitsValue(body, 0)]
       ELSE [ok |-> FALSE, n |-> 0]

(***************************************************************************)
(* json.loads on the JSON subset the model's texts can hold: objects,      *)
(* arrays, strings without escapes, integers and the three literals.       *)
(* A parse step returns [ok, val, next]: next is the position after the    *)
(* value.                                                                  *)
(***************************************************************************)
JsonWs == {" ", "\n", "\t", "\r"}
ParseFail == [ok |-> FALSE, val |-> None, next |-> 0]
ParseOk(x, n) == [ok |-> TRUE, val |-> x, next |-> n]

RECURSIVE SkipWs(_, _)
SkipWs(s, i) == IF i <= Len(s) /\ s[i] \in JsonWs THEN SkipWs(s, i + 1) ELSE i

\* A string starting at the quote s[i]: raw control characters and
\* backslashes end the parse (the model's texts hold no escapes).
ParseString(s, i) ==
    IF \E j \in (i + 1)..Len(s) : s[j] = "\""
    THEN LET j == CHOOSE j \in (i + 1)..Len(s) :
                     s[j] = "\"" /\ \A k \in (i + 1)..(j - 1) : s[k] # "\""
         IN IF \A k \in (i + 1)..(j - 1) : s[k] \notin {"\n", "\t", "\r", "\\"}
            THEN ParseOk(Str(SubSeq(s, i + 1, j - 1)), j + 1)
            ELSE ParseFail
    ELSE ParseFail

RECURSIVE DigitsEnd(_, _)
DigitsEnd(s, i) == IF i <= Len(s) /\ IsDigit(s[i]) THEN DigitsEnd(s, i + 1) ELSE i

\* An integer: -? (0 | [1-9][0-9]*)
ParseNumber(s, i) ==
    LET neg == s[i] = "-"
        d == IF neg THEN i + 1 ELSE i
        e == DigitsEnd(s, d)
        stop == IF d <= Len(s) /\ s[d] = "0" THEN d + 1 ELSE e
        n == DigitsValue(SubSeq(s, d, stop - 1), 0)
    IN IF e = d THEN ParseFail
       ELSE ParseOk(Num(IF neg THEN 0 - n ELSE n), stop)

ParseLiteral(s, i) ==
    CASE StartsWith(Drop(s, i - 1), <<"n", "u", "l", "l">>) -> ParseOk(None, i + 4)
      [] StartsWith(Drop(s, i - 1), <<"t", "r", "u", "e">>) -> ParseOk(Bool(TRUE), i + 4)
      [] StartsWith(Drop(s, i - 1), <<"f", "a", "l", "s", "e">>) -> ParseOk(Bool(FALSE), i + 5)
      [] OTHER -> ParseFail

\* dict[key] = val: a repeated key keeps its place and takes the new value.
DictSet(kvs, key, val) ==
    IF \E i \in 1..Len(kvs) : kvs[i].k = key
    THEN [i \in 1..Len(kvs) |-> IF kvs[i].k = key THEN KV(key, val) ELSE kvs[i]]
    ELSE Append(kvs, KV(key, val))

RECURSIVE ParseValue(_, _)
RECURSIVE ParseElems(_, _, _)
RECURSIVE ParseMembers(_, _, _)

\* The elements of an array, a value expected at s[i].
ParseElems(s, i, acc) ==
    LET r == ParseValue(s, i)
        j == SkipWs(s, r.next)
    IN IF ~r.ok \/ j > Len(s) THEN ParseFail
       ELSE IF s[j] = "," THEN ParseElems(s, SkipWs(s, j + 1), Append(acc, r.val))
       ELSE IF s[j] = "]" THEN ParseOk(List(Append(acc, r.val)), j + 1)
       ELSE ParseFail

\* The members of an object, a key expected at s[i].
ParseMembers(s, i, acc) ==
    IF i > Len(s) \/ s[i] # "\"" THEN ParseFail
    ELSE LET key == ParseString(s, i)
             c == SkipWs(s, key.next)
             r == ParseValue(s, SkipWs(s, c + 1))
             j == SkipWs(s, r.next)
         IN IF ~key.ok \/ c > Len(s) THEN ParseFail
            ELSE IF s[c] # ":" THEN ParseFail
            ELSE IF ~r.ok \/ j > Len(s) THEN ParseFail
            ELSE IF s[j] = ","
                 THEN ParseMembers(s, SkipWs(s, j + 1), DictSet(acc, key.val.v, r.val))
            ELSE IF s[j] = "}"
                 THEN ParseOk(Dict(DictSet(acc, key.val.v, r.val)), j + 1)
            ELSE ParseFail

ParseValue(s, i) ==
    IF i > Len(s) THEN ParseFail
    ELSE CASE s[i] = "\"" -> ParseString(s, i)
           [] s[i] = "[" ->
                LET j == SkipWs(s, i + 1)
                IN IF j <= Len(s) /\ s[j] = "]" THEN ParseOk(List(<<>>), j + 1)
                   ELSE ParseElems(s, j, <<>>)
           [] s[i] = "{" ->
                LET j == SkipWs(s, i + 1)
                IN IF j <= Len(s) /\ s[j] = "}" THEN ParseOk(Dict(<<>>), j + 1)
                   ELSE ParseMembers(s, j, <<>>)
           [] s[i] = "-" \/ IsDigit(s[i]) -> ParseNumber(s, i)
           [] OTHER -> ParseLiteral(s, i)

\* json.loads(s): [ok |-> TRUE, val] or ok = FALSE for JSONDecodeError.
JsonLoads(s) ==
    LET r == ParseValue(s, SkipWs(s, 1))
    IN IF r.ok /\ SkipWs(s, r.next) > Len(s) THEN r ELSE ParseFail

(***************************************************************************)
(* Python's operators on values.  An operation returns [exc, val]: exc is  *)
(* "none" or the name of the exception it raises.                          *)
(***************************************************************************)
Ok(x) == [exc |-> "none", val |-> x]
Exc(e) == [exc |-> e, val |-> None]

\* key in x, for a str key.
PyIn(key, x) ==
    CASE x.t = "dict" -> Ok(\E i \in 1..Len(x.v) : x.v[i].k = key)
      [] x.t = "list" -> Ok(\E i \in 1..Len(x.v) : PyEq(x.v[i], Str(key)))
      [] x.t = "str" -> Ok(Contains(x.v, key))
      [] OTHER -> Exc("TypeError")

\* A sequence index with Python's negative indices: 0 when out of range.
SeqIndex(n, len) ==
    IF 0 <= n /\ n < len THEN n + 1
    ELSE IF n < 0 /\ 0 - n <= len THEN len + n + 1
    ELSE 0

\* x[key], for a str or int key.
Subscript(x, key) ==
    CASE x.t = "dict" ->
            IF key.t = "str" /\ \E i \in 1..Len(x.v) : x.v[i].k = key.v
            THEN Ok(x.v[CHOOSE i \in 1..Len(x.v) : x.v[i].k = key.v].v)
            ELSE Exc("KeyError")
      [] x.t = "list" ->
            IF key.t # "num" THEN Exc("TypeError")
            ELSE IF SeqIndex(key.v, Len(x.v)) = 0 THEN Exc("IndexError")
            ELSE Ok(x.v[SeqIndex(key.v, Len(x.v))])
      [] x.t = "str" ->
            IF key.t # "num" THEN Exc("TypeError")
            ELSE IF SeqIndex(key.v, Len(x.v)) = 0 THEN Exc("IndexError")
            ELSE Ok(Str(<<x.v[SeqIndex(key.v, Len(x.v))]>>))
      [] OTHER -> Exc("TypeError")

\* r[key] when r is the outcome of an earlier subscript.
Then(r, key) == IF r.exc # "none" THEN r ELSE Subscript(r.val, key)

(***************************************************************************)
(* Names the code spells out.  The backtick is written "bt": a string of   *)
(* this language cannot hold the character itself.                         *)
(***************************************************************************)
BT == "bt"
FENCE == <<BT, BT, BT>>
FENCE_JSON == <<BT, BT, BT, "j", "s", "o", "n">>
K_choices == <<"c", "h", "o", "i", "c", "e", "s">>
K_message == <<"m", "e", "s", "s", "a", "g", "e">>
K_content == <<"c", "o", "n", "t", "e", "n", "t">>
K_filenames == <<"f", "i", "l", "e", "n", "a", "m", "e", "s">>
EXT_WEBP == <<".", "w", "e", "b", "p">>
SCR_PATH == <<"~", "/", "D", "o", "w", "n", "l", "o", "a", "d", "s", "/">>
SCR_PATTERN == <<"S", "C", "R", "-", "*", ".", "p", "n", "g">>

(***************************************************************************)
(* extract_filenames                                                       *)
(***************************************************************************)
\* Lines 93-96: the text between the first fence and the next one.  The
\* result is [exc, val] with val the remaining text.
StripFenceBareOnly(content) ==
    IF Contains(content, FENCE)
    THEN LET a == Split(content, FENCE)
         IN IF Len(a) < 2 THEN Exc("IndexError") ELSE Ok(Split(a[2], FENCE)[1])
    ELSE Ok(content)

StripFence(content) ==
    IF Contains(content, FENCE_JSON)
    THEN LET a == Split(content, FENCE_JSON)
         IN IF Len(a) < 2 THEN Exc("IndexError") ELSE Ok(Split(a[2], FENCE)[1])
    ELSE IF Contains(content, FENCE)
    THEN LET a == Split(content, FENCE)
         IN IF Len(a) < 2 THEN Exc("IndexError") ELSE Ok(Split(a[2], FENCE)[1])
    ELSE Ok(content)

\* Lines 93-100 on the value found under 'content': a value that is no str
\* fails in the "in" test (None, numbers) or in the str method call.
ParseContent(content) ==
    IF content.t = "str"
    THEN LET body == StripFence(content.v)
         IN IF body.exc # "none" THEN body
            ELSE IF JsonLoads(Strip(body.val)).ok
                 THEN Ok(JsonLoads(Strip(body.val)).val)
                 ELSE Exc("JSONDecodeError")
    ELSE IF PyIn(FENCE_JSON, content).exc # "none" THEN Exc("TypeError")
    ELSE Exc("AttributeError")

\* The exceptions line 101 catches.
Caught101 == {"KeyError", "IndexError", "JSONDecodeError"}

\* extract_filenames(llm_response): [ret, exc], exc the uncaught exception.
extract_filenames(response) ==
    IF ~Truthy(response) THEN [ret |-> None, exc |-> "none"]
    ELSE IF PyIn(K_choices, response).exc # "none"
         THEN [ret |-> None, exc |-> PyIn(K_choices, response).exc]
    ELSE IF ~PyIn(K_choices, response).val THEN [ret |-> None, exc |-> "none"]
    ELSE LET content == Then(Then(Then(Subscript(response, Str(K_choices)), Num(0)),
                                  Str(K_message)), Str(K_content))
             parsed == IF content.exc # "none" THEN content
                       ELSE ParseContent(content.val)
         IN IF parsed.exc = "none" THEN [ret |-> parsed.val, exc |-> "none"]
            ELSE IF parsed.exc \in Caught101 THEN [ret |-> None, exc |-> "none"]
            ELSE [ret |-> None, exc |-> parsed.exc]

(***************************************************************************)
(* select_filename                                                         *)
(***************************************************************************)
KeyboardInterrupt == [t |-> "KeyboardInterrupt", v |-> <<>>]
EndOfInput == [t |-> "EOF", v |-> <<>>]
Line(s) == [t |-> "line", v |-> s]

\* Line 127, with a lower bound of 0.
InRangeFromZero(selection, filenames_len) == 0 <= selection /\ selection <= filenames_len
\* Line 127
InRange(selection, filenames_len) == 1 <= selection /\ selection <= filenames_len

\* Line 134, without lower().
custom_filename_keep_case(user_input) == Replace(user_input, " ", "-")
\* Line 134
custom_filename(user_input) == Replace(Lower(user_input), " ", "-")

Selected(r, out, asked) ==
    [ret |-> r.val, exc |-> r.exc, printed |-> out, prompted |-> asked]

\* Lines 118-140: the prompt and what follows it, for the candidates cands.
PromptAndPick(cands, event) ==
    LET shown == {"suggestions"}
        user_input == Strip(event.v)
        selection == PyInt(user_input)
    IN CASE event.t = "KeyboardInterrupt" ->
              Selected(Subscript(cands, Num(0)), shown \cup {"Using first option."}, TRUE)
         [] event.t = "EOF" -> Selected(Exc("EOFError"), shown, TRUE)
         [] OTHER ->
              IF user_input = <<>>
              THEN Selected(Subscript(cands, Num(0)), shown, TRUE)
              ELSE IF selection.ok
              THEN IF InRange(selection.n, Len(cands.v))
                   THEN Selected(Subscript(cands, Num(selection.n - 1)), shown, TRUE)
                   ELSE Selected(Subscript(cands, Num(0)),
                                 shown \cup {"Invalid selection"}, TRUE)
              ELSE Selected(Ok(Str(custom_filename(user_input))),
                            shown \cup {"Using custom filename"}, TRUE)

\* select_filename(filenames_dict), the console answering with event:
\* [ret, exc, printed, prompted].
select_filename(filenames_dict, event) ==
    IF ~Truthy(filenames_dict) THEN Selected(Ok(None), {}, FALSE)
    ELSE IF PyIn(K_filenames, filenames_dict).exc # "none"
         THEN Selected(PyIn(K_filenames, filenames_dict), {}, FALSE)
    ELSE IF ~PyIn(K_filenames, filenames_dict).val THEN Selected(Ok(None), {}, FALSE)
    ELSE LET cands == Subscript(filenames_dict, Str(K_filenames))
         IN IF cands.exc # "none" THEN Selected(cands, {}, FALSE)
            ELSE IF ~Truthy(cands.val) THEN Selected(Ok(None), {}, FALSE)
            ELSE IF cands.val.t \notin {"list", "str", "dict"}
                 THEN Selected(Exc("TypeError"), {}, FALSE)
            ELSE PromptAndPick(cands.val, event)

(***************************************************************************)
(* os.path on POSIX paths.                                                 *)
(***************************************************************************)
SEP == <<"/">>
HOME == <<"/", "h">>
CWD == <<"/", "w">>

\* The position of the last "/" in p, 0 when there is none.
LastSlash(p) ==
    IF \E i \in 1..Len(p) : p[i] = "/"
    THEN CHOOSE i \in 1..Len(p) : p[i] = "/" /\ \A j \in (i + 1)..Len(p) : p[j] # "/"
    ELSE 0

RECURSIVE RStripSlashes(_)
RStripSlashes(p) ==
    IF p # <<>> /\ p[Len(p)] = "/" THEN RStripSlashes(Take(p, Len(p) - 1)) ELSE p

\* os.path.dirname
Dirname(p) ==
    LET head == Take(p, LastSlash(p))
    IN IF RStripSlashes(head) = <<>> THEN head ELSE RStripSlashes(head)

\* os.path.basename
Basename(p) == Drop(p, LastSlash(p))

\* os.path.join(a, b)
PathJoin(a, b) ==
    IF StartsWith(b, SEP) THEN b
    ELSE IF a = <<>> \/ a[Len(a)] = "/" THEN a \o b
    ELSE a \o SEP \o b

\* os.path.expanduser: a leading "~" becomes the home directory.
Expanduser(p) ==
    IF StartsWith(p, <<"~">>) /\ (Len(p) = 1 \/ p[2] = "/")
    THEN LET q == RStripSlashes(HOME) \o Drop(p, 1)
         IN IF q = <<>> THEN SEP ELSE q
    ELSE p

\* os.path.normpath on the components of an absolute path: empty and "."
\* components go, ".." takes the component before it.
RECURSIVE NormComps(_, _)
NormComps(comps, acc) ==
    IF comps = <<>> THEN acc
    ELSE IF Head(comps) = <<>> \/ Head(comps) = <<".">> THEN NormComps(Tail(comps), acc)
    ELSE IF Head(comps) = <<".", ".">>
         THEN NormComps(Tail(comps), IF acc = <<>> THEN acc ELSE Take(acc, Len(acc) - 1))
    ELSE NormComps(Tail(comps), Append(acc, Head(comps)))

RECURSIVE JoinComps(_)
JoinComps(comps) ==
    IF comps = <<>> THEN <<>> ELSE SEP \o Head(comps) \o JoinComps(Tail(comps))

\* os.path.abspath
Abspath(p) ==
    LET q == IF StartsWith(p, SEP) THEN p ELSE PathJoin(CWD, p)
        body == JoinComps(NormComps(Split(q, SEP), <<>>))
    IN IF StartsWith(q, <<"/", "/">>) /\ ~StartsWith(q, <<"/", "/", "/">>)
       THEN SEP \o (IF body = <<>> THEN SEP ELSE body)
       ELSE IF body = <<>> THEN SEP ELSE body

(***************************************************************************)
(* The screenshot directory: fs is its listing, a sequence of              *)
(* [name, mtime] in the order the operating system lists it.               *)
(***************************************************************************)
\* fnmatch: "*" matches any run of characters, any other character itself.
RECURSIVE GlobMatch(_, _)
GlobMatch(pat, name) ==
    IF pat = <<>> THEN name = <<>>
    ELSE IF Head(pat) = "*"
         THEN GlobMatch(Tail(pat), name) \/ (name # <<>> /\ GlobMatch(pat, Tail(name)))
    ELSE name # <<>> /\ Head(name) = Head(pat) /\ GlobMatch(Tail(pat), Tail(name))

\* glob.glob(pattern): the listed names matching the pattern's last
\* component, each joined to the pattern's directory, in listing order.
RECURSIVE Glob(_, _)
Glob(pattern, listing) ==
    IF listing = <<>> THEN <<>>
    ELSE IF GlobMatch(Basename(pattern), Head(listing).name)
         THEN <<PathJoin(Dirname(pattern), Head(listing).name)>> \o Glob(pattern, Tail(listing))
    ELSE Glob(pattern, Tail(listing))

Exists(path, listing) ==
    /\ Dirname(path) = Dirname(Expanduser(SCR_PATH))
    /\ \E i \in 1..Len(listing) : listing[i].name = Basename(path)

\* os.path.getmtime
Getmtime(path, listing) ==
    listing[CHOOSE i \in 1..Len(listing) : listing[i].name = Basename(path)].mtime

\* Line 40, taking the last of the files.
last_file(files, listing) == files[Len(files)]
\* Line 40: max(files, key=os.path.getmtime), the first file of maximal key.
newest_file(files, listing) ==
    files[CHOOSE i \in 1..Len(files) :
            /\ \A j \in 1..Len(files) : Getmtime(files[j], listing) <= Getmtime(files[i], listing)
            /\ \A j \in 1..(i - 1) : Getmtime(files[j], listing) < Getmtime(files[i], listing)]

\* get_scr_img_path(search_path) on a directory listed as listing.
get_scr_img_path(search_path, listing) ==
    LET pattern == PathJoin(Expanduser(search_path), SCR_PATTERN)
        files == Glob(pattern, listing)
    IN IF files = <<>> THEN None ELSE Str(Abspath(newest_file(files, listing)))

(***************************************************************************)
(* compress_image_webp                                                     *)
(***************************************************************************)
\* str(n) for an int.
RECURSIVE NatStr(_)
NatStr(n) == IF n < 10 THEN <<Digits[n + 1]>> ELSE NatStr(n \div 10) \o <<Digits[(n % 10) + 1]>>

\* What an f-string makes of a value.
PyStr(x) ==
    CASE x.t = "str" -> x.v
      [] x.t = "num" -> IF x.v < 0 THEN <<"-">> \o NatStr(0 - x.v) ELSE NatStr(x.v)
      [] x.t = "bool" -> IF x.v THEN <<"T", "r", "u", "e">> ELSE <<"F", "a", "l", "s", "e">>
      [] OTHER -> <<"N", "o", "n", "e">>

\* CWEBP_CLI_TEMPLATE.format(input=..., output=...)
CWEBP_CLI(input, output) ==
    <<"c", "w", "e", "b", "p", " ", "-", "q", " ", "8", "0", " ">> \o input
        \o <<" ", "-", "o", " ">> \o output

\* Line 162 with check=False: no exit code raises.
RaisesNever(returncode) == FALSE
\* Line 162, check=True: a non-zero exit raises CalledProcessError.
RaisesCalledProcessError(returncode) == returncode # 0

Compressed(r, e, out, cmd, path) ==
    [ret |-> r, exc |-> e, printed |-> out, command |-> cmd, output_path |-> path]

\* compress_image_webp(image_path, selected_filename), the directory listed
\* as listing and the command exiting with returncode.
compress_image_webp(path, name, listing, returncode) ==
    IF ~Truthy(path) \/ ~Truthy(name) THEN Compressed(None, "none", {}, <<>>, <<>>)
    ELSE LET input_dir == Dirname(PyStr(path))
             output_path == PathJoin(input_dir, PyStr(name) \o EXT_WEBP)
             command == CWEBP_CLI(PyStr(path), output_path)
         IN IF ~Exists(PyStr(path), listing)
            THEN Compressed(None, "FileNotFoundError", {}, <<>>, <<>>)
            ELSE IF RaisesCalledProcessError(returncode)
            THEN Compressed(None, "none", {"Error converting image"}, command, output_path)
            ELSE Compressed(Str(output_path), "none",
                            {"Successfully converted to", "Input size", "Output size",
                             "Compression ratio"},
                            command, output_path)

(***************************************************************************)
(* The inputs the runs draw from.                                          *)
(***************************************************************************)
Strings(alphabet, n) == UNION {[1..k -> alphabet] : k \in 0..n}

\* The i-th candidate of a well-formed reply: "c1", "c2", ...
Candidate(i) == <<"c">> \o NatStr(i)
Candidates(n) == [i \in 1..n |-> Str(Candidate(i))]
FilenamesDict(cands) == Dict(<<KV(K_filenames, List(cands))>>)

\* What the user can type on the console line.
InputAlphabet == {" ", "-", "+", "0", "1", "3", "_", "A", "b", "/"}
ConsoleEvents ==
    {Line(s) : s \in Strings(InputAlphabet, MaxInputLen)} \cup {KeyboardInterrupt, EndOfInput}

\* File names of the screenshot directory.
F_SCR1 == <<"S", "C", "R", "-", "1", ".", "p", "n", "g">>
F_SCR2 == <<"S", "C", "R", "-", "2", ".", "p", "n", "g">>
F_SCR == <<"S", "C", "R", "-", ".", "p", "n", "g">>
F_lower == <<"s", "c", "r", "-", "3", ".", "p", "n", "g">>
F_jpg == <<"S", "C", "R", "-", "4", ".", "j", "p", "g">>
F_other == <<"a", ".", "p", "n", "g">>
FileNames == {F_SCR1, F_SCR2, F_SCR, F_lower, F_jpg, F_other}
MainFileNames == {F_SCR1, F_SCR2, F_other}

Distinct(listing) ==
    \A i, j \in 1..Len(listing) : listing[i].name = listing[j].name => i = j
Listings(names, n) ==
    {l \in UNION {[1..k -> [name : names, mtime : 1..MaxMtime]] : k \in 0..n} : Distinct(l)}

\* The reply's JSON text for a list of names: {"filenames": ["a", "b"]}
RECURSIVE JsonItems(_)
JsonItems(names) ==
    IF names = <<>> THEN <<>>
    ELSE <<"\"">> \o Head(names) \o <<"\"">>
         \o (IF Len(names) > 1 THEN <<",", " ">> ELSE <<>>) \o JsonItems(Tail(names))
JsonText(names) ==
    <<"{", "\"">> \o K_filenames \o <<"\"", ":", " ", "[">> \o JsonItems(names) \o <<"]", "}">>

\* A chat-completion reply whose first choice holds content.
Reply(content) ==
    Dict(<<KV(K_choices, List(<<Dict(<<KV(K_message, Dict(<<KV(K_content, content)>>))>>)>>))>>)

\* The content of a reply built from a list of names: the JSON text, padded,
\* unwrapped or between fences, with text before and after the block.
Content(w) ==
    CASE w.wrap = "json" ->
            w.before \o FENCE_JSON \o w.pad \o JsonText(w.names) \o w.pad \o FENCE \o w.after
      [] w.wrap = "bare" ->
            w.before \o FENCE \o w.pad \o JsonText(w.names) \o w.pad \o FENCE \o w.after
      [] OTHER -> w.pad \o JsonText(w.names) \o w.pad

N_login == <<"l", "o", "g", "i", "n">>
N_new == <<"n", "e", "w", "-", "u", "s", "e", "r">>
N_ticks == <<"a", BT, BT, BT, "1", BT, BT, BT, "b">>
ModelNames == {N_login, N_new, N_ticks}
Befores == {<<>>, <<"H", "e", "r", "e", ":", "\n">>, <<BT>>, <<BT, BT, BT, "x", BT, BT, BT, " ">>}
Afters == {<<>>, <<"\n", "D", "o", "n", "e">>, <<"j", "s", "o", "n">>, <<" ", BT, BT, BT, "j", "s", "o", "n">>}
Pads == {<<>>, <<"\n">>}
NoSample == [wrap |-> "other", before |-> <<>>, after |-> <<>>, pad |-> <<>>, names |-> <<>>]
Wrapped ==
    [wrap : {"json", "bare"}, before : Befores, after : Afters, pad : Pads,
     names : Strings(ModelNames, MaxListLen)]
Unwrapped ==
    [wrap : {"none"}, before : {<<>>}, after : {<<>>}, pad : Pads,
     names : Strings(ModelNames, MaxListLen)]

\* Replies that are not the expected structure: every JSON type at every
\* level of response, choices, message, content and the embedded JSON.
Malformed ==
    {None, Bool(TRUE), Num(0), Num(5), Str(<<>>), Str(K_choices), List(<<>>),
     List(<<Str(K_choices)>>), Dict(<<>>), Dict(<<KV(<<"e", "r", "r", "o", "r">>, Num(1))>>),
     Dict(<<KV(K_choices, None)>>), Dict(<<KV(K_choices, Num(1))>>),
     Dict(<<KV(K_choices, List(<<>>))>>), Dict(<<KV(K_choices, Dict(<<>>))>>),
     Dict(<<KV(K_choices, Str(<<"x">>))>>), Dict(<<KV(K_choices, List(<<Num(5)>>))>>),
     Dict(<<KV(K_choices, List(<<None>>))>>), Dict(<<KV(K_choices, List(<<Dict(<<>>)>>))>>),
     Dict(<<KV(K_choices, List(<<Dict(<<KV(K_message, None)>>)>>))>>),
     Dict(<<KV(K_choices, List(<<Dict(<<KV(K_message, Dict(<<>>))>>)>>))>>),
     Reply(None), Reply(Num(5)), Reply(List(<<Str(<<"x">>)>>)), Reply(List(<<Str(FENCE)>>)),
     Reply(Dict(<<KV(FENCE_JSON, Num(1))>>)),
     Reply(Str(<<>>)), Reply(Str(<<"h", "i">>)), Reply(Str(<<"{">>)), Reply(Str(FENCE)),
     Reply(Str(<<"5">>)), Reply(Str(<<"n", "u", "l", "l">>)), Reply(Str(<<"t", "r", "u", "e">>)),
     Reply(Str(<<"\"", "f", "i", "l", "e", "n", "a", "m", "e", "s", "\"">>)), Reply(Str(<<"[", "\"", "f", "i", "l", "e", "n", "a", "m", "e", "s", "\"", "]">>)), Reply(Str(<<"[", "\"", "a", "\"", "]">>)),
     Reply(Str(<<"{", "}">>)), Reply(Str(<<"{", "\"", "n", "a", "m", "e", "s", "\"", ":", " ", "[", "\"", "a", "\"", "]", "}">>)),
     Reply(Str(<<"{", "\"", "f", "i", "l", "e", "n", "a", "m", "e", "s", "\"", ":", " ", "n", "u", "l", "l", "}">>)), Reply(Str(<<"{", "\"", "f", "i", "l", "e", "n", "a", "m", "e", "s", "\"", ":", " ", "5", "}">>)),
     Reply(Str(<<"{", "\"", "f", "i", "l", "e", "n", "a", "m", "e", "s", "\"", ":", " ", "\"", "a", "b", "\"", "}">>)), Reply(Str(<<"{", "\"", "f", "i", "l", "e", "n", "a", "m", "e", "s", "\"", ":", " ", "[", "]", "}">>)),
     Reply(Str(<<"{", "\"", "f", "i", "l", "e", "n", "a", "m", "e", "s", "\"", ":", " ", "{", "\"", "a", "\"", ":", " ", "1", "}", "}">>)), Reply(Str(<<"{", "\"", "f", "i", "l", "e", "n", "a", "m", "e", "s", "\"", ":", " ", "[", "1", ",", " ", "2", "]", "}">>)),
     Reply(Str(<<"{", "\"", "f", "i", "l", "e", "n", "a", "m", "e", "s", "\"", ":", " ", "[", "\"", "a", "\"", ",", "]", "}">>))}

\* The replies and console answers of a whole run of main.
MainReplies ==
    {Reply(Str(Content([wrap |-> "json", before |-> <<>>, after |-> <<>>, pad |-> <<"\n">>,
                        names |-> <<N_login, N_new>>]))),
     Dict(<<KV(<<"e", "r", "r", "o", "r">>, Num(1))>>)}
MainConsole == {Line(<<>>), Line(<<"2">>), Line(<<"m", "y">>), KeyboardInterrupt}
ExitCodes == {0, 1, 2}

(***************************************************************************)
(* The state machine.  pc is main's position; the other specifications     *)
(* start a run at one step with that step's inputs drawn from the sets     *)
(* above.                                                                  *)
(***************************************************************************)
NotCalled == [called |-> FALSE, path |-> None, name |-> None]
NoResult == Compressed(None, "none", {}, <<>>, <<>>)

\* Every variable but the inputs a specification draws.
Fresh ==
    /\ fs_events = 0
    /\ sample = NoSample
    /\ selected_filename = None
    /\ image_path = None
    /\ sent_path = None
    /\ requests = 0
    /\ prompted = FALSE
    /\ result = NoResult
    /\ printed = {}
    /\ raised = "none"

\* Line 187 without the test of the selected filename.
MainGuardPathOnly(path, name) == Truthy(path)
\* Line 187
MainGuard(path, name) == Truthy(path) /\ Truthy(name)

\* Lines 58-67 (with 49-55): locate the newest screenshot and encode it;
\* without one the client returns None and sends nothing.
LlmLocate ==
    /\ pc = "locate"
    /\ LET path == get_scr_img_path(SCR_PATH, fs)
       IN IF path = None
          THEN /\ llm_response' = None
               /\ pc' = "extract"
               /\ UNCHANGED sent_path
          ELSE /\ sent_path' = path
               /\ pc' = "request"
               /\ UNCHANGED llm_response
    /\ UNCHANGED <<fs, fs_events, sample, filenames, console, selected_filename, image_path,
                   requests, prompted, compress_args, proc, result, printed, raised>>

\* Lines 69-82: the request is sent and the reply's JSON handed on, or the
\* network layer raises.
Request ==
    /\ pc = "request"
    /\ requests' = requests + 1
    /\ \/ \E r \in MainReplies : llm_response' = r /\ pc' = "extract" /\ UNCHANGED raised
       \/ raised' = "RequestException" /\ pc' = "crashed" /\ UNCHANGED llm_response
    /\ UNCHANGED <<fs, fs_events, sample, filenames, console, selected_filename, image_path,
                   sent_path, prompted, compress_args, proc, result, printed>>

\* Line 183
Extract ==
    /\ pc = "extract"
    /\ LET r == extract_filenames(llm_response)
       IN /\ filenames' = r.ret
          /\ raised' = r.exc
          /\ pc' = IF r.exc = "none" THEN "select" ELSE "crashed"
    /\ UNCHANGED <<fs, fs_events, llm_response, sample, console, selected_filename, image_path,
                   sent_path, requests, prompted, compress_args, proc, result, printed>>

\* Lines 184-185
Select ==
    /\ pc = "select"
    /\ LET r == select_filename(filenames, console)
       IN /\ selected_filename' = r.ret
          /\ prompted' = r.prompted
          /\ raised' = r.exc
          /\ printed' = printed \cup r.printed
                          \cup (IF r.exc = "none" THEN {"Selected filename"} ELSE {})
          /\ pc' = IF r.exc = "none" THEN "locate2" ELSE "crashed"
    /\ UNCHANGED <<fs, fs_events, llm_response, sample, filenames, console, image_path,
                   sent_path, requests, compress_args, proc, result>>

\* Lines 186-187
LocateAgain ==
    /\ pc = "locate2"
    /\ LET path == get_scr_img_path(SCR_PATH, fs)
       IN /\ image_path' = path
          /\ IF MainGuard(path, selected_filename)
             THEN /\ compress_args' = [called |-> TRUE, path |-> path,
                                       name |-> selected_filename]
                  /\ pc' = "compress"
             ELSE /\ pc' = "done"
                  /\ UNCHANGED compress_args
    /\ UNCHANGED <<fs, fs_events, llm_response, sample, filenames, console, selected_filename,
                   sent_path, requests, prompted, proc, result, printed, raised>>

\* Lines 143-178 (called at line 188)
Compress ==
    /\ pc = "compress"
    /\ LET r == compress_image_webp(compress_args.path, compress_args.name, fs, proc)
       IN /\ result' = r
          /\ raised' = r.exc
          /\ printed' = printed \cup r.printed
          /\ pc' = IF r.exc = "none" THEN "done" ELSE "crashed"
    /\ UNCHANGED <<fs, fs_events, llm_response, sample, filenames, console, selected_filename,
                   image_path, sent_path, requests, prompted, compress_args, proc>>

\* Another process changes the screenshot directory while main runs.
Waiting == pc \in {"request", "extract", "select", "locate2", "compress"}

FsCreate ==
    /\ Waiting /\ fs_events < MaxFsEvents /\ Len(fs) < MaxFiles
    /\ \E n \in MainFileNames, m \in 1..MaxMtime :
          /\ \A i \in 1..Len(fs) : fs[i].name # n
          /\ fs' = Append(fs, [name |-> n, mtime |-> m])
    /\ fs_events' = fs_events + 1
    /\ UNCHANGED <<pc, llm_response, sample, filenames, console, selected_filename, image_path,
                   sent_path, requests, prompted, compress_args, proc, result, printed, raised>>

FsModify ==
    /\ Waiting /\ fs_events < MaxFsEvents
    /\ \E i \in 1..Len(fs), m \in 1..MaxMtime :
          /\ m # fs[i].mtime
          /\ fs' = [fs EXCEPT ![i].mtime = m]
    /\ fs_events' = fs_events + 1
    /\ UNCHANGED <<pc, llm_response, sample, filenames, console, selected_filename, image_path,
                   sent_path, requests, prompted, compress_args, proc, result, printed, raised>>

FsRemove ==
    /\ Waiting /\ fs_events < MaxFsEvents
    /\ \E i \in 1..Len(fs) : fs' = Take(fs, i - 1) \o Drop(fs, i)
    /\ fs_events' = fs_events + 1
    /\ UNCHANGED <<pc, llm_response, sample, filenames, console, selected_filename, image_path,
                   sent_path, requests, prompted, compress_args, proc, result, printed, raised>>

\* main, lines 181-188.
Init ==
    /\ pc = "locate"
    /\ fs \in Listings(MainFileNames, MaxFiles)
    /\ console \in MainConsole
    /\ proc \in ExitCodes
    /\ llm_response = None
    /\ filenames = None
    /\ compress_args = NotCalled
    /\ Fresh

Next ==
    \/ LlmLocate
    \/ Request
    \/ Extract
    \/ Select
    \/ LocateAgain
    \/ Compress
    \/ FsCreate
    \/ FsModify
    \/ FsRemove

Spec == Init /\ [][Next]_vars

\* get_scr_img_path on every directory.
InitLocate ==
    /\ pc = "locate2"
    /\ fs \in Listings(FileNames, MaxFiles)
    /\ console = Line(<<>>)
    /\ proc = 0
    /\ llm_response = None
    /\ filenames = None
    /\ compress_args = NotCalled
    /\ Fresh

NextLocate == LocateAgain

SpecLocate == InitLocate /\ [][NextLocate]_vars

\* extract_filenames and select_filename on every reply.
InitParse ==
    /\ pc = "extract"
    /\ fs = <<>>
    /\ console \in {Line(<<>>), Line(<<"2">>)}
    /\ proc = 0
    /\ \/ sample = NoSample /\ llm_response \in Malformed
       \/ sample \in Wrapped \cup Unwrapped /\ llm_response = Reply(Str(Content(sample)))
    /\ filenames = None
    /\ compress_args = NotCalled
    /\ fs_events = 0
    /\ selected_filename = None
    /\ image_path = None
    /\ sent_path = None
    /\ requests = 0
    /\ prompted = FALSE
    /\ result = NoResult
    /\ printed = {}
    /\ raised = "none"

NextParse ==
    \/ Extract
    \/ Select

SpecParse == InitParse /\ [][NextParse]_vars

\* select_filename on every candidate list and console answer.
InitSelect ==
    /\ pc = "select"
    /\ fs = <<>>
    /\ console \in ConsoleEvents
    /\ proc = 0
    /\ llm_response = None
    /\ \E n \in 1..MaxCands : filenames = FilenamesDict(Candidates(n))
    /\ compress_args = NotCalled
    /\ Fresh

NextSelect == Select

SpecSelect == InitSelect /\ [][NextSelect]_vars

\* compress_image_webp on every pair of arguments.
NameAlphabet == {"a", "/", "."}
SourcePaths ==
    {None, Str(<<>>), Str(PathJoin(Expanduser(SCR_PATH), F_SCR1)),
     Str(PathJoin(Expanduser(SCR_PATH), F_SCR2))}
SelectedNames == {None} \cup {Str(n) : n \in Strings(NameAlphabet, MaxNameLen)}

InitCompress ==
    /\ pc = "compress"
    /\ fs \in {<<>>, <<[name |-> F_SCR1, mtime |-> 1]>>,
               <<[name |-> F_SCR1, mtime |-> 1], [name |-> F_SCR2, mtime |-> 1]>>}
    /\ console = Line(<<>>)
    /\ proc \in ExitCodes
    /\ llm_response = None
    /\ filenames = None
    /\ \E p \in SourcePaths, n \in SelectedNames :
          compress_args = [called |-> TRUE, path |-> p, name |-> n]
    /\ Fresh

NextCompress == Compress

SpecCompress == InitCompress /\ [][NextCompress]_vars

(***************************************************************************)
(* The claims.                                                             *)
(***************************************************************************)
\* The candidate list select_filename was given, and its first candidate.
GivenCandidates == Subscript(filenames, Str(K_filenames)).val.v
FirstCandidate == GivenCandidates[1]

\* C1: malformed model output never crashes the pipeline: whatever value the
\* client hands on, the parse step and the select step after it end in a
\* result or in "no candidates", never in an uncaught error.
C1_MalformedNeverCrashes == pc # "crashed" /\ raised = "none"

\* C2: with a non-empty candidate list, every interruption of the console
\* read (the user cancelling, the input ending) makes select_filename return
\* candidate 1 without raising.
C2_InterruptFallsBack ==
    (pc # "select" /\ console.t \in {"KeyboardInterrupt", "EOF"})
        => (raised = "none" /\ pc = "locate2" /\ selected_filename = FirstCandidate)

\* C3: for a non-empty candidate list of length L and an input that is empty
\* or an integer n, select_filename returns candidate n when 1 <= n <= L and
\* candidate 1 otherwise (empty input, 0, negative n, n > L).
C3_NumberPicksCandidate ==
    (pc # "select" /\ console.t = "line"
        /\ (Strip(console.v) = <<>> \/ PyInt(console.v).ok))
        => /\ raised = "none"
           /\ pc = "locate2"
           /\ LET n == PyInt(console.v)
              IN IF n.ok /\ 1 <= n.n /\ n.n <= Len(GivenCandidates)
                 THEN selected_filename = GivenCandidates[n.n]
                 ELSE selected_filename = FirstCandidate

C3_Witness ==
    /\ pc = "locate2"
    /\ console = Line(<<"3">>)
    /\ Len(GivenCandidates) = 3
    /\ selected_filename = Str(Candidate(3))

\* out is text lowercased with each space replaced by a hyphen, character by
\* character, nothing else changed or removed.
LoweredHyphenated(text, out) ==
    /\ Len(out) = Len(text)
    /\ \A i \in 1..Len(text) :
          out[i] = (IF text[i] = " " THEN "-" ELSE LowerChar(text[i]))
NoSpaceNoUpper(out) == \A i \in 1..Len(out) : out[i] # " " /\ ~IsUpper(out[i])

\* C4 as stated: every non-empty input that is not an integer comes back
\* lowercased, every space a hyphen, no other character changed or removed.
C4_CustomWholeInput ==
    (pc # "select" /\ console.t = "line" /\ console.v # <<>> /\ ~PyInt(console.v).ok)
        => /\ raised = "none"
           /\ selected_filename.t = "str"
           /\ LoweredHyphenated(console.v, selected_filename.v)
           /\ NoSpaceNoUpper(selected_filename.v)

\* C4 (amended): an input that, with its leading and trailing whitespace
\* stripped, is non-empty and not an integer comes back as that stripped
\* text lowercased, every remaining space a hyphen, nothing else changed;
\* the name holds no space and no uppercase letter.
C4_CustomStrippedInput ==
    (pc # "select" /\ console.t = "line" /\ Strip(console.v) # <<>>
        /\ ~PyInt(console.v).ok)
        => /\ raised = "none"
           /\ pc = "locate2"
           /\ selected_filename.t = "str"
           /\ LoweredHyphenated(Strip(console.v), selected_filename.v)
           /\ NoSpaceNoUpper(selected_filename.v)

C4_Witness ==
    /\ pc = "locate2"
    /\ console = Line(<<"A", " ", "b">>)
    /\ selected_filename = Str(<<"a", "-", "b">>)
    /\ "Using custom filename" \in printed

Statistics == {"Successfully converted to", "Input size", "Output size", "Compression ratio"}

\* C5: when the external command of compress_image_webp exits non-zero, the
\* call prints the error and returns None without raising, and prints no
\* size or ratio statistics.
C5_FailedCommandReturnsNone ==
    (pc # "compress" /\ result.command # <<>> /\ proc # 0)
        => /\ raised = "none"
           /\ pc = "done"
           /\ result.ret = None
           /\ "Error converting image" \in printed
           /\ printed \cap Statistics = {}

C5_Witness ==
    /\ pc = "done"
    /\ proc = 2
    /\ result.command # <<>>
    /\ result.ret = None
    /\ printed = {"Error converting image"}

\* C6: the file the compressor writes is "<selected_filename>.webp" in the
\* directory of the source image.
C6_OutputBesideSource ==
    (pc # "compress" /\ result.command # <<>>)
        => /\ Dirname(result.output_path) = Dirname(compress_args.path.v)
           /\ Basename(result.output_path) = PyStr(compress_args.name) \o EXT_WEBP

\* A name matches SCR-*.png: it starts with SCR-, ends with .png, and the
\* two do not overlap.
IsScreenshotName(name) ==
    /\ Len(name) >= 8
    /\ SubSeq(name, 1, 4) = <<"S", "C", "R", "-">>
    /\ SubSeq(name, Len(name) - 3, Len(name)) = <<".", "p", "n", "g">>

\* C7: get_scr_img_path returns None when no file matches SCR-*.png, and
\* otherwise the path of a matching file whose modification time is at least
\* that of every other matching file; a file that does not match is never
\* returned.
C7_NewestMatchingFile ==
    pc = "done" =>
        LET matching == {i \in 1..Len(fs) : IsScreenshotName(fs[i].name)}
        IN IF matching = {} THEN image_path = None
           ELSE /\ image_path.t = "str"
                /\ \E i \in matching :
                      /\ image_path.v = Expanduser(SCR_PATH) \o fs[i].name
                      /\ \A j \in matching : fs[j].mtime <= fs[i].mtime

C7_Witness ==
    /\ pc = "done"
    /\ fs = <<[name |-> F_other, mtime |-> 2], [name |-> F_SCR2, mtime |-> 2],
               [name |-> F_SCR1, mtime |-> 1]>>
    /\ image_path = Str(Expanduser(SCR_PATH) \o F_SCR2)

\* C8: a run of main whose first locate finds no screenshot sends no request,
\* never prompts, never invokes the compressor and ends normally; and in
\* every run the compressor is invoked only after a selection that returned
\* a non-empty filename and a locate that returned a path.
C8_NoScreenshotSkips ==
    /\ (pc # "locate" /\ sent_path = None)
          => /\ requests = 0
             /\ ~prompted
             /\ ~compress_args.called
             /\ raised = "none"
             /\ pc \in {"extract", "select", "locate2", "done"}
    /\ compress_args.called
          => /\ pc \in {"compress", "done", "crashed"}
             /\ Truthy(selected_filename) /\ compress_args.name = selected_filename
             /\ image_path # None /\ compress_args.path = image_path

C8_Witness ==
    /\ pc = "done"
    /\ sent_path = None
    /\ image_path # None
    /\ ~compress_args.called

\* C9: the source image given to the compressor is the file whose bytes were
\* encoded and sent to the model, whatever happens in the directory while
\* the run waits.
C9_CompressesWhatWasSent == compress_args.called => compress_args.path = sent_path

\* The value the parser should yield for the sampled list of names.
ExpectedList == List([i \in 1..Len(sample.names) |-> Str(sample.names[i])])
YieldsSampledList ==
    /\ raised = "none"
    /\ filenames.t = "dict"
    /\ Subscript(filenames, Str(K_filenames)) = Ok(ExpectedList)

\* C10 as stated: valid JSON text with a list under "filenames", unwrapped
\* or in a tagged or bare fence, with any text before or after the block,
\* parses to exactly that list, in order.
C10_AnyFencedJsonParses ==
    (pc = "select" /\ sample.wrap \in {"none", "json", "bare"}) => YieldsSampledList

\* The opening fence is found where the block starts, and the text between
\* the fences holds no fence of its own.
FenceFound ==
    /\ ~Contains(JsonText(sample.names), FENCE)
    /\ sample.wrap = "json"
          => Find(Content(sample), FENCE_JSON) = Len(sample.before) + 1
    /\ sample.wrap = "bare"
          => /\ Find(Content(sample), FENCE) = Len(sample.before) + 1
             /\ ~Contains(Content(sample), FENCE_JSON)

\* C10 (amended): the same, provided the JSON text holds no triple backtick,
\* the opening fence is the first of its kind in the content, and a content
\* with a bare fence holds no tagged fence marker anywhere.
C10_FirstFenceJsonParses ==
    (pc = "select" /\ sample.wrap \in {"none", "json", "bare"} /\ FenceFound)
        => YieldsSampledList

C10_Witness ==
    /\ pc = "select"
    /\ sample.wrap = "bare"
    /\ sample.before = <<"H", "e", "r", "e", ":", "\n">>
    /\ sample.after = <<"\n", "D", "o", "n", "e">>
    /\ sample.names = <<N_new, N_login>>
    /\ Subscript(filenames, Str(K_filenames)) = Ok(List(<<Str(N_new), Str(N_login)>>))

====
